---- MODULE Spec2Model ----
(***************************************************************************)
(* expr_parser: the lexer (src/src/lexer.rs), the right-to-left recursive  *)
(* descent parser (src/src/parser.rs) and the stack evaluator with its     *)
(* read-eval-print loop (src/src/vm.rs).                                   *)
(*                                                                         *)
(* Conventions.                                                            *)
(*  - Option<T> is a sequence of length 0 (None) or 1 (Some).              *)
(*  - Vec indices are 0-based as in the source; Get does the shift.        *)
(*  - A usize is written with the signed representative of its residue     *)
(*    class modulo 2^64, so usize::MAX is -1 and usize::MAX - 1 is -2.     *)
(*  - A Rust panic is a result of kind "Panic"; it ends the process.       *)
(*  - overflow_checks is the build profile: TRUE is a build with integer   *)
(*    overflow checks (debug), FALSE one that wraps (release).             *)
(***************************************************************************)
EXTENDS Integers, Sequences, FiniteSets, TLC

VARIABLES overflow_checks, pc, input, tokens, res, value, out

vars == <<overflow_checks, pc, input, tokens, res, value, out>>

(***************************************************************************)
(* Bounds and input alphabets                                              *)
(***************************************************************************)
MaxLen == 3

Digits == {"0", "1", "2", "3", "4", "5", "6", "7", "8", "9"}

\* characters of the exhaustively enumerated short lines; "q" is a character
\* the lexer does not know, and the line "q" is a quit keyword
Chars == {"0", "2", "3", "+", "-", "%", "*", "/", "^", "(", ")", " ", "q"}

OpChars == {"+", "-", "%", "*", "/", "^"}

ChainDigits == {"0", "2", "3"}

ShortLines == UNION {[1..n -> Chars] : n \in 0..MaxLen}

\* a op1 b op2 c, bare or with parentheses around it or around its parts
ChainLines ==
    {pre \o <<a, o1, b>> \o mid \o <<o2, c>> \o suf :
        pre \in {<<>>, <<"(">>}, mid \in {<<>>, <<")">>}, suf \in {<<>>, <<")">>},
        a \in ChainDigits, b \in ChainDigits, c \in ChainDigits,
        o1 \in OpChars, o2 \in OpChars}

\* the inputs the specification names
ExampleLines ==
    { <<"8", "-", "3", "-", "2">>,
      <<"2", "^", "3", "^", "2">>,
      <<"2", "+", "3", "*", "4">>,
      <<"(", "2", "+", "3", ")", "*", "4">>,
      <<"(", "1", ")">>,
      <<"5", "/", "0">>,
      <<"2", " ", "2">>,
      <<"2", "+", "2", ")">>,
      <<"2", "(", "1", ")">>,
      <<"(", "2", "+", "3">>,
      <<"(", "(", "1", ")">>,
      <<"+", "2">>,
      <<"2", "+">>,
      <<"2", "+", "@">>,
      <<"1", " ", "+", " ", "2">>,
      <<"1", "+", "2">>,
      <<"q", "u", "i", "t">> }

\* powers at the edge of the i64 range: 2^64 is outside it, 2^30 is inside
OverflowLines ==
    { <<"(", "2", "^", "6", "4">>,
      <<"(", "2", "^", "3", "0">> }

\* a op b, bare or with parentheses
BinLines ==
    {pre \o <<a, o, b>> \o suf :
        pre \in {<<>>, <<"(">>}, suf \in {<<>>, <<")">>},
        a \in ChainDigits, b \in ChainDigits, o \in OpChars}

Lines == ShortLines \cup BinLines \cup ChainLines \cup ExampleLines \cup OverflowLines

(***************************************************************************)
(* Results                                                                 *)
(***************************************************************************)
None == <<>>

Some(x) == <<x>>

Panic(at) == [kind |-> "Panic", at |-> at]

\* Vec::get
Get(v, i) == IF i >= 0 /\ i < Len(v) THEN Some(v[i + 1]) ELSE None

\* usize `a - 1`: a panic in a build with overflow checks, a wrap otherwise
UsizeDec(a, at) ==
    IF a = 0 /\ overflow_checks THEN Panic(at)
    ELSE [kind |-> "Ok", val |-> a - 1]

(***************************************************************************)
(* lexer.rs                                                                *)
(***************************************************************************)
\* enum Token: the eight fixed kinds carry no value, Number carries an i64
Token(kind) == [kind |-> kind]

Number(n) == [kind |-> "Number", n |-> n]

\* c.to_string().parse::<i64>() of one character: Some(value) for an ASCII
\* digit, None for every other character
ParseDigit(c) ==
    CASE c = "0" -> Some(0) [] c = "1" -> Some(1) [] c = "2" -> Some(2)
      [] c = "3" -> Some(3) [] c = "4" -> Some(4) [] c = "5" -> Some(5)
      [] c = "6" -> Some(6) [] c = "7" -> Some(7) [] c = "8" -> Some(8)
      [] c = "9" -> Some(9) [] OTHER -> None

\* get_number's loop: s is the input, i the 0-based index of the peeked
\* character, number the value accumulated so far
RECURSIVE get_number_loop(_, _, _)
get_number_loop(s, i, number) ==
    LET peek == Get(s, i) IN
    IF peek # None /\ ParseDigit(peek[1]) # None
    THEN get_number_loop(s, i + 1, number * 10 + ParseDigit(peek[1])[1])
    ELSE [number |-> number, next |-> i]

\* get_number that stops after the digit already consumed
get_number_one_digit(c, s, i) == [number |-> ParseDigit(c)[1], next |-> i]

\* get_number: c is the digit already consumed, i the index after it
get_number(c, s, i) == get_number_loop(s, i, ParseDigit(c)[1])

\* the token of one of the eight fixed characters
FixedToken(c) ==
    CASE c = "+" -> Token("OpAdd") [] c = "-" -> Token("OpSub")
      [] c = "%" -> Token("OpMod") [] c = "*" -> Token("OpMult")
      [] c = "/" -> Token("OpDiv") [] c = "^" -> Token("OpExp")
      [] c = "(" -> Token("LeftParen") [] c = ")" -> Token("RightParen")

FixedChars == {"+", "-", "%", "*", "/", "^", "(", ")"}

\* the loop of lex without the arm for ' ': a space is an unexpected character
RECURSIVE lex_loop_without_space_arm(_, _, _, _)
lex_loop_without_space_arm(s, i, progress, result) ==
    LET peek == Get(s, i) IN
    IF peek = None THEN [kind |-> "Ok", tokens |-> result]
    ELSE LET c == peek[1]
             p == progress + 1
         IN  IF c \in Digits
             THEN LET g == get_number(c, s, i + 1)
                  IN  lex_loop_without_space_arm(s, g.next, p,
                                                 Append(result, Number(g.number)))
             ELSE IF c \in FixedChars
             THEN lex_loop_without_space_arm(s, i + 1, p, Append(result, FixedToken(c)))
             ELSE [kind |-> "Err", msg |-> "Unexpected character", char |-> c,
                   token_no |-> p, tokens |-> result]

\* the while loop of lex: i is the index of the peeked character
RECURSIVE lex_loop(_, _, _, _)
lex_loop(s, i, progress, result) ==
    LET peek == Get(s, i) IN
    IF peek = None THEN [kind |-> "Ok", tokens |-> result]
    ELSE LET c == peek[1]
             p == progress + 1
         IN  IF c \in Digits
             THEN LET g == get_number(c, s, i + 1)
                  IN  lex_loop(s, g.next, p, Append(result, Number(g.number)))
             ELSE IF c \in FixedChars
             THEN lex_loop(s, i + 1, p, Append(result, FixedToken(c)))
             ELSE IF c = " "
             THEN lex_loop(s, i + 1, p, result)
             ELSE [kind |-> "Err", msg |-> "Unexpected character", char |-> c,
                   token_no |-> p, tokens |-> result]

\* lex with `progress` starting at 1 instead of 0
lex_progress_from_one(s) == lex_loop(s, 0, 1, <<>>)

lex(s) == lex_loop(s, 0, 0, <<>>)

(***************************************************************************)
(* parser.rs                                                               *)
(***************************************************************************)
\* ParseNode::new: both children start as None
ParseNode_new(ntype, terminal, non_terminal, depth) ==
    [left_child |-> None, right_child |-> None, ntype |-> ntype,
     terminal |-> terminal, non_terminal |-> non_terminal, depth |-> depth]

Terminal(t) == [t |-> t]

Literal(n) == [t |-> "Literal", n |-> n]

ParserError(msg, found, token_no) ==
    [kind |-> "Err", msg |-> msg, found |-> found, token_no |-> token_no,
     lexer |-> <<>>]

OkNode(node, pos) == [kind |-> "Ok", node |-> node, pos |-> pos]

\* an operator arm that leaves the right child unset
Fold_without_right_child(terminal, non_terminal, lhs, r) ==
    IF r.kind # "Ok" THEN r
    ELSE OkNode([ParseNode_new("Branch", Terminal(terminal), non_terminal,
                               lhs.depth + 1)
                   EXCEPT !.left_child = Some(lhs)],
                r.pos)

\* one operator arm of parse_expr / parse_term / parse_factor, after the
\* recursive call for the right-hand side returned r
Fold(terminal, non_terminal, lhs, r) ==
    IF r.kind # "Ok" THEN r
    ELSE OkNode([ParseNode_new("Branch", Terminal(terminal), non_terminal,
                               lhs.depth + 1)
                   EXCEPT !.left_child = Some(lhs),
                          !.right_child = Some(r.node)],
                r.pos)

RECURSIVE parse_expr(_, _), parse_term(_, _), parse_factor(_, _), parse_exponent(_, _)

\* the Err of the closure: e is pos - 1, computed for the message
parse_exponent_unclosed(toks, pos, e) ==
    IF e.kind = "Panic" THEN e
    ELSE ParserError("Expected closing parenthesis but found", Get(toks, e.val), pos)

\* the closure of the RightParen arm: r is what parse_expr returned
parse_exponent_closure(toks, r) ==
    IF r.kind # "Ok" THEN r
    ELSE IF Get(toks, r.pos) = Some(Token("LeftParen"))
    THEN OkNode([ParseNode_new("Branch", Terminal("Paren"), "Exponent",
                               r.node.depth + 1)
                   EXCEPT !.left_child = Some(r.node)],
                IF r.pos = 0 THEN r.pos ELSE r.pos - 1)
    ELSE parse_exponent_unclosed(toks, r.pos,
                                 UsizeDec(r.pos, "parser.rs:281 pos - 1"))

\* the RightParen arm: d is pos - 1
parse_exponent_paren(toks, d) ==
    IF d.kind = "Panic" THEN d
    ELSE parse_exponent_closure(toks, parse_expr(toks, d.val))

\* the Number arm: d is pos - 1
parse_exponent_number(n, d) ==
    IF d.kind = "Panic" THEN d
    ELSE OkNode(ParseNode_new("Leaf", Literal(n), "Exponent", 0), d.val)

\* the match of parse_exponent: c is tokens.get(pos)
parse_exponent_match(toks, pos, c) ==
    IF c = None THEN ParserError("Unexpected end of input", None, pos)
    ELSE IF c[1].kind = "Number"
    THEN parse_exponent_number(c[1].n, UsizeDec(pos, "parser.rs:264 pos - 1"))
    ELSE IF c[1].kind = "RightParen"
    THEN parse_exponent_paren(toks, UsizeDec(pos, "parser.rs:267 pos - 1"))
    ELSE ParserError("Unexpected token", c, pos)

parse_exponent(toks, pos) == parse_exponent_match(toks, pos, Get(toks, pos))

\* the Exp arm: lhs is the parsed exponent, d is pos - 1
parse_factor_rhs(toks, lhs, d) ==
    IF d.kind = "Panic" THEN d
    ELSE Fold("Exp", "Factor", lhs, parse_factor(toks, d.val))

\* the match of parse_factor: f is what parse_exponent returned
parse_factor_match(toks, f) ==
    IF f.kind # "Ok" THEN f
    ELSE IF Get(toks, f.pos) = Some(Token("OpExp"))
    THEN parse_factor_rhs(toks, f.node, UsizeDec(f.pos, "parser.rs:235 pos - 1"))
    ELSE f

parse_factor(toks, pos) == parse_factor_match(toks, parse_exponent(toks, pos))

\* Mult and Div arms that parse the right-hand side as a whole expression
parse_term_rhs_as_expr(terminal, toks, lhs, d) ==
    IF d.kind = "Panic" THEN d
    ELSE Fold(terminal, "Term", lhs, parse_expr(toks, d.val))

\* the Mult and Div arms
parse_term_rhs(terminal, toks, lhs, d) ==
    IF d.kind = "Panic" THEN d
    ELSE Fold(terminal, "Term", lhs, parse_term(toks, d.val))

parse_term_match(toks, f) ==
    IF f.kind # "Ok" THEN f
    ELSE IF Get(toks, f.pos) = Some(Token("OpMult"))
    THEN parse_term_rhs("Mult", toks, f.node, UsizeDec(f.pos, "parser.rs:205 pos - 1"))
    ELSE IF Get(toks, f.pos) = Some(Token("OpDiv"))
    THEN parse_term_rhs("Div", toks, f.node, UsizeDec(f.pos, "parser.rs:215 pos - 1"))
    ELSE f

parse_term(toks, pos) == parse_term_match(toks, parse_factor(toks, pos))

\* the Sum, Sub and Mod arms
parse_expr_rhs(terminal, toks, lhs, d) ==
    IF d.kind = "Panic" THEN d
    ELSE Fold(terminal, "Expression", lhs, parse_expr(toks, d.val))

parse_expr_match(toks, f) ==
    IF f.kind # "Ok" THEN f
    ELSE IF Get(toks, f.pos) = Some(Token("OpAdd"))
    THEN parse_expr_rhs("Sum", toks, f.node, UsizeDec(f.pos, "parser.rs:162 pos - 1"))
    ELSE IF Get(toks, f.pos) = Some(Token("OpSub"))
    THEN parse_expr_rhs("Sub", toks, f.node, UsizeDec(f.pos, "parser.rs:172 pos - 1"))
    ELSE IF Get(toks, f.pos) = Some(Token("OpMod"))
    THEN parse_expr_rhs("Mod", toks, f.node, UsizeDec(f.pos, "parser.rs:182 pos - 1"))
    ELSE f

parse_expr(toks, pos) == parse_expr_match(toks, parse_term(toks, pos))

\* the closure of parse: r is what parse_expr returned
parse_closure(toks, r) ==
    IF r.kind # "Ok" THEN r
    ELSE IF r.pos = 0
    THEN [kind |-> "Ok", node |-> [r.node EXCEPT !.ntype = "Root"]]
    ELSE IF Get(toks, r.pos) = None
    THEN Panic("parser.rs:136 tokens[pos] out of bounds")
    ELSE ParserError("Expected end of input, found", Get(toks, r.pos), r.pos)

\* the Ok arm of parse: d is tokens.len() - 1
parse_tokens(toks, d) ==
    IF d.kind = "Panic" THEN d
    ELSE parse_closure(toks, parse_expr(toks, d.val))

\* parse with an Err arm that does not hand on the lexer's tokens
parse_without_lexer_tokens(lexed) ==
    IF lexed.kind = "Ok"
    THEN parse_tokens(lexed.tokens,
                      UsizeDec(Len(lexed.tokens), "parser.rs:128 tokens.len() - 1"))
    ELSE ParserError(lexed.msg, Some(lexed.char), lexed.token_no)

\* parse: lexed is the Result the lexer returned
parse(lexed) ==
    IF lexed.kind = "Ok"
    THEN parse_tokens(lexed.tokens,
                      UsizeDec(Len(lexed.tokens), "parser.rs:128 tokens.len() - 1"))
    ELSE [kind |-> "Err", msg |-> lexed.msg, found |-> Some(lexed.char),
          token_no |-> lexed.token_no, lexer |-> lexed.tokens]

(***************************************************************************)
(* vm.rs                                                                   *)
(***************************************************************************)
\* the terminals in post-order: a node is pushed after its subtrees
RECURSIVE build_exec_stack_node_last(_)
build_exec_stack_node_last(node) ==
    (IF node.left_child = None THEN <<>>
     ELSE build_exec_stack_node_last(node.left_child[1])
          \o (IF node.right_child = None THEN <<>>
              ELSE build_exec_stack_node_last(node.right_child[1])))
    \o <<node.terminal>>

\* build_exec_stack: the terminals in pre-order, the last pushed on top (at
\* the end of the sequence)
RECURSIVE build_exec_stack(_)
build_exec_stack(node) ==
    <<node.terminal>>
    \o (IF node.left_child = None THEN <<>>
        ELSE build_exec_stack(node.left_child[1])
             \o (IF node.right_child = None THEN <<>>
                 ELSE build_exec_stack(node.right_child[1])))

\* Vec::pop
Pop(stack) ==
    IF stack = <<>> THEN [top |-> None, rest |-> stack]
    ELSE [top |-> Some(stack[Len(stack)]), rest |-> SubSeq(stack, 1, Len(stack) - 1)]

\* i64 arithmetic. An i64 is written as the integer it holds. One `+`, `-`
\* or `*` of two values below 2^31 in magnitude cannot leave the i64 range,
\* so these three are exact on every value the model checker's integers
\* hold; a power can leave it, and is computed on the eight bytes of the i64.
\* i64 `/` and `%` round toward zero; the divisor here is a literal, so > 0
TruncDiv(a, n) == IF a >= 0 THEN a \div n ELSE -((-a) \div n)

TruncRem(a, n) == a - n * TruncDiv(a, n)

\* the k low bytes of a magnitude, least significant first
RECURSIVE Bytes(_, _)
Bytes(m, k) == IF k = 0 THEN <<>> ELSE <<m % 256>> \o Bytes(m \div 256, k - 1)

\* the integer a sequence of bytes stands for
RECURSIVE FromBytes(_)
FromBytes(b) == IF b = <<>> THEN 0 ELSE Head(b) + 256 * FromBytes(Tail(b))

\* column k of the product of two 8-byte magnitudes: the sum of x[i] * y[k - i]
RECURSIVE Column(_, _, _, _)
Column(x, y, k, i) ==
    IF i > 7 THEN 0
    ELSE (IF k - i \in 0..7 THEN x[i + 1] * y[k - i + 1] ELSE 0) + Column(x, y, k, i + 1)

\* the 16 bytes of the product, from column k on, t being column k with carry
RECURSIVE MulBytes(_, _, _, _)
MulBytes(x, y, k, t) ==
    IF k > 15 THEN <<>>
    ELSE <<t % 256>> \o MulBytes(x, y, k + 1, Column(x, y, k + 1, 0) + t \div 256)

\* two's complement negation of 8 bytes: c is the carry of the `+ 1`
RECURSIVE NegBytes(_, _)
NegBytes(b, c) ==
    IF b = <<>> THEN <<>>
    ELSE <<(255 - Head(b) + c) % 256>> \o NegBytes(Tail(b), (255 - Head(b) + c) \div 256)

\* the i64 whose two's complement bytes are b
SignedOfBytes(b) ==
    IF b[8] >= 128 THEN -FromBytes(NegBytes(b, 1)) ELSE FromBytes(b)

\* the wrapping product of two 8-byte magnitudes; over: it left the 64 bits
Split(prod) == [lo |-> SubSeq(prod, 1, 8), over |-> SubSeq(prod, 9, 16) # Bytes(0, 8)]

Mul64(x, y) == Split(MulBytes(x, y, 0, Column(x, y, 0, 0)))

\* the loop of pow on magnitudes modulo 2^64 (exponentiation by squaring);
\* over: one of the products so far left the 64 bits
RECURSIVE PowLoop(_, _, _, _)
PowNext(a, b, over, exp) == PowLoop(a.lo, b.lo, over \/ a.over \/ b.over, exp)

PowLast(a, over) == [mag |-> a.lo, over |-> over \/ a.over]

PowLoop(acc, base, over, exp) ==
    IF exp > 1
    THEN PowNext(IF exp % 2 = 1 THEN Mul64(acc, base) ELSE [lo |-> acc, over |-> FALSE],
                 Mul64(base, base), over, exp \div 2)
    ELSE PowLast(Mul64(acc, base), over)

\* the result of a.pow(n) from the magnitude p of |a|^n: outside the i64
\* range it is a panic in a build with overflow checks and the value
\* wrapped modulo 2^64 otherwise
PowResult(negative, p) ==
    IF p.over \/ (p.mag[8] >= 128 /\ ~(negative /\ p.mag = Bytes(0, 7) \o <<128>>))
    THEN IF overflow_checks
         THEN Panic("vm.rs:86 attempt to multiply with overflow")
         ELSE [kind |-> "Ok",
               val |-> SignedOfBytes(IF negative THEN NegBytes(p.mag, 1) ELSE p.mag)]
    ELSE [kind |-> "Ok", val |-> IF negative THEN -FromBytes(p.mag) ELSE FromBytes(p.mag)]

\* `n as u32` of a literal: literals are not negative, and below 2^32 the
\* cast keeps the value
AsU32(n) == n

\* i64::pow
I64Pow(a, n) ==
    IF n = 0 THEN [kind |-> "Ok", val |-> 1]
    ELSE PowResult(a < 0 /\ n % 2 = 1,
                   PowLoop(Bytes(1, 8), Bytes(IF a < 0 THEN -a ELSE a, 8), FALSE, n))

EvalOk(v) == [kind |-> "Ok", val |-> v]

EvalErr(msg) == [kind |-> "Err", msg |-> msg]

\* the `loop` of evaluate
RECURSIVE eval_loop(_, _)

\* the Exp arm: r is what pow returned
eval_pow(stack, r) == IF r.kind = "Panic" THEN r ELSE eval_loop(stack, r.val)

eval_loop(stack, result) ==
    LET next == Pop(stack) IN
    IF next.top = None THEN EvalOk(result)
    ELSE LET val == next.top[1] IN
         IF val.t = "Literal"
         THEN LET o == Pop(next.rest) IN
              IF o.top = None
              THEN Panic("vm.rs:65 unwrap on None")
              ELSE LET op == o.top[1]
                       n == val.n
                   IN  CASE op.t = "Sum" -> eval_loop(o.rest, result + n)
                         [] op.t = "Sub" -> eval_loop(o.rest, result - n)
                         [] op.t = "Mod" ->
                              IF n = 0
                              THEN Panic("vm.rs:74 remainder with a divisor of zero")
                              ELSE eval_loop(o.rest, TruncRem(result, n))
                         [] op.t = "Mult" -> eval_loop(o.rest, result * n)
                         [] op.t = "Div" ->
                              IF n = 0 THEN EvalErr("vm: Divison by 0")
                              ELSE eval_loop(o.rest, TruncDiv(result, n))
                         [] op.t = "Exp" ->
                              eval_pow(o.rest, I64Pow(result, AsU32(n)))
                         [] op.t = "Paren" -> eval_loop(o.rest, result)
                         [] op.t = "Literal" ->
                              EvalErr("vm: Unexpected integer literal")
         ELSE EvalErr("vm: Expected integer literal")

evaluate(node) ==
    LET first == Pop(build_exec_stack(node)) IN
    IF first.top = None THEN Panic("vm.rs:52 unwrap on None")
    ELSE eval_loop(first.rest,
                   IF first.top[1].t = "Literal" THEN 0 + first.top[1].n ELSE 0)

\* matches_any(&input, &keywords.quit), with the keywords of init()
matches_any(s) == s \in {<<"q", "u", "i", "t">>, <<"q">>}

\* str::trim, for the one whitespace character of the alphabet
RECURSIVE trim_start(_), trim_end(_)
trim_start(s) == IF s # <<>> /\ Head(s) = " " THEN trim_start(Tail(s)) ELSE s

trim_end(s) ==
    IF s # <<>> /\ s[Len(s)] = " " THEN trim_end(SubSeq(s, 1, Len(s) - 1)) ELSE s

trim(s) == trim_end(trim_start(s))

(***************************************************************************)
(* vm::run, one step per call of the loop body                             *)
(***************************************************************************)
Nil == [kind |-> "None"]

Init ==
    /\ overflow_checks \in BOOLEAN
    /\ pc = "prompt"
    /\ input = <<>>
    /\ tokens = Nil
    /\ res = Nil
    /\ value = Nil
    /\ out = "banner"

\* prompt_and_read, then the keyword check: the only exit of the loop
PromptAndRead ==
    /\ pc = "prompt"
    /\ \E line \in Lines :
          /\ input' = trim(line)
          /\ pc' = IF matches_any(trim(line)) THEN "exited" ELSE "lex"
    /\ out' = "prompt"
    /\ UNCHANGED <<overflow_checks, tokens, res, value>>

Lex ==
    /\ pc = "lex"
    /\ tokens' = lex(input)
    /\ pc' = "parse"
    /\ UNCHANGED <<overflow_checks, input, res, value, out>>

Parse ==
    /\ pc = "parse"
    /\ res' = parse(tokens)
    /\ pc' = CASE res'.kind = "Ok" -> "evaluate"
               [] res'.kind = "Err" -> "report"
               [] res'.kind = "Panic" -> "aborted"
    /\ UNCHANGED <<overflow_checks, input, tokens, value, out>>

Evaluate ==
    /\ pc = "evaluate"
    /\ value' = evaluate(res.node)
    /\ pc' = IF value'.kind = "Panic" THEN "aborted" ELSE "report"
    /\ UNCHANGED <<overflow_checks, input, tokens, res, out>>

\* the eprintln! of the result, of the evaluation error, or report_parser_err
Report ==
    /\ pc = "report"
    /\ out' = CASE res.kind = "Err" -> "parser_error"
                [] value.kind = "Ok" -> "result"
                [] value.kind = "Err" -> "eval_error"
    /\ pc' = "prompt"
    \* the locals of the loop body are dropped at the end of the iteration
    /\ input' = <<>>
    /\ tokens' = Nil
    /\ res' = Nil
    /\ value' = Nil
    /\ UNCHANGED overflow_checks

Next == PromptAndRead \/ Lex \/ Parse \/ Evaluate \/ Report

Spec == Init /\ [][Next]_vars

(***************************************************************************)
(* Reference semantics of section 4.3 of the specification, used to state  *)
(* the claims: an Option, None where the value is undefined (zero divisor, *)
(* negative exponent) or too large to compare here                         *)
(***************************************************************************)
Abs(x) == IF x < 0 THEN -x ELSE x

Sgn(x) == IF x < 0 THEN -1 ELSE 1

RefQuot(x, y) == Sgn(x) * Sgn(y) * (Abs(x) \div Abs(y))

RECURSIVE RefPow(_, _)
RefPow(x, y) ==
    IF y = 0 THEN Some(1)
    ELSE LET r == RefPow(x, y - 1)
         IN  IF r = None \/ Abs(r[1]) * Abs(x) > 1000000000 THEN None
             ELSE Some(r[1] * x)

RefBin(o, x, y) ==
    IF x = None \/ y = None THEN None
    ELSE CASE o = "+" -> Some(x[1] + y[1])
           [] o = "-" -> Some(x[1] - y[1])
           [] o = "*" -> Some(x[1] * y[1])
           [] o = "%" -> IF y[1] = 0 THEN None
                         ELSE Some(x[1] - y[1] * RefQuot(x[1], y[1]))
           [] o = "/" -> IF y[1] = 0 THEN None ELSE Some(RefQuot(x[1], y[1]))
           [] o = "^" -> IF y[1] < 0 \/ y[1] > 30 THEN None
                         ELSE RefPow(x[1], y[1])

Prec(o) == CASE o \in {"+", "-", "%"} -> 0 [] o \in {"*", "/"} -> 1 [] o = "^" -> 2

\* the line is  a op b
IsBin(s) == Len(s) = 3 /\ s[1] \in Digits /\ s[2] \in OpChars /\ s[3] \in Digits

\* the line is  a op1 b op2 c
IsChain(s) ==
    /\ Len(s) = 5
    /\ s[1] \in Digits /\ s[3] \in Digits /\ s[5] \in Digits
    /\ s[2] \in OpChars /\ s[4] \in OpChars

\* the line is  ( a op1 b ) op2 c
IsParenChain(s) ==
    /\ Len(s) = 7 /\ s[1] = "(" /\ s[5] = ")"
    /\ IsChain(<<s[2], s[3], s[4], s[6], s[7]>>)

Inner(s) == <<s[2], s[3], s[4], s[6], s[7]>>

Lit(c) == Some(ParseDigit(c)[1])

\* (a op1 b) op2 c   and   a op1 (b op2 c)
LeftGrouped(s) == RefBin(s[4], RefBin(s[2], Lit(s[1]), Lit(s[3])), Lit(s[5]))

RightGrouped(s) == RefBin(s[2], Lit(s[1]), RefBin(s[4], Lit(s[3]), Lit(s[5])))

\* the value of  a op1 b op2 c  under the grammar of section 4.2
Standard(s) ==
    IF Prec(s[4]) > Prec(s[2]) \/ (s[2] = "^" /\ s[4] = "^")
    THEN RightGrouped(s) ELSE LeftGrouped(s)

\* the loop body is through with the line: its result is about to be
\* reported, or the process is gone
Done == pc \in {"report", "aborted"}

\* evaluate(parse(lex(input))) returned Ok(v)
Returned(v) == pc = "report" /\ res.kind = "Ok" /\ value = EvalOk(v)

(***************************************************************************)
(* Claims                                                                  *)
(***************************************************************************)
\* C1: a chain a op1 b op2 c of operators of one precedence level (both of
\* + - %, or both of * /) evaluates to Ok((a op1 b) op2 c); "8-3-2" gives 3.
C1_LeftAssociativeChain ==
    (/\ Done
     /\ IsChain(input)
     /\ Prec(input[2]) = Prec(input[4]) /\ Prec(input[2]) \in {0, 1}
     /\ LeftGrouped(input) # None)
    => Returned(LeftGrouped(input)[1])

\* C2: a chain a^b^c evaluates to Ok(a^(b^c)); "2^3^2" gives 512.
C2_RightAssociativeExponent ==
    (/\ Done
     /\ IsChain(input)
     /\ input[2] = "^" /\ input[4] = "^"
     /\ RightGrouped(input) # None)
    => Returned(RightGrouped(input)[1])

\* C3: in a op1 b op2 c with one operator of + - % and the other of * /, the
\* operator of * / is applied first, and in (a op1 b) op2 c the parenthesised
\* one is; "2+3*4" gives 14 and "(2+3)*4" gives 20.
C3_Precedence ==
    /\ (/\ Done
        /\ IsChain(input)
        /\ {Prec(input[2]), Prec(input[4])} = {0, 1}
        /\ Standard(input) # None)
       => Returned(Standard(input)[1])
    /\ (/\ Done
        /\ IsParenChain(input)
        /\ {Prec(input[3]), Prec(input[6])} = {0, 1}
        /\ LeftGrouped(Inner(input)) # None)
       => Returned(LeftGrouped(Inner(input))[1])

\* a tree with every Paren node replaced by its child
RECURSIVE StripParens(_)
StripParens(node) ==
    IF node.terminal.t = "Paren" THEN StripParens(node.left_child[1])
    ELSE IF node.left_child = None THEN node
    ELSE [node EXCEPT !.left_child = Some(StripParens(node.left_child[1])),
                      !.right_child = Some(StripParens(node.right_child[1]))]

RECURSIVE HasParen(_)
HasParen(node) ==
    \/ node.terminal.t = "Paren"
    \/ /\ node.left_child # None
       /\ HasParen(node.left_child[1])
    \/ /\ node.right_child # None
       /\ HasParen(node.right_child[1])

\* the tree wrapped in one Paren node, as parse_exponent builds it
WrapParen(node) ==
    [ParseNode_new("Branch", Terminal("Paren"), "Exponent", node.depth + 1)
       EXCEPT !.left_child = Some(node)]

\* C4: a Paren node evaluates to the value of its child: wrapping the tree
\* parse returned in a Paren node, or removing the Paren nodes it has, does
\* not change what evaluate returns; "(1)" gives Ok(1).
C4_ParenIsTransparent ==
    (Done /\ res.kind = "Ok")
    => /\ evaluate(WrapParen(res.node)) = value
       /\ HasParen(res.node) => evaluate(StripParens(res.node)) = value

OpOf(t) ==
    CASE t = "Sum" -> "+" [] t = "Sub" -> "-" [] t = "Mod" -> "%"
      [] t = "Mult" -> "*" [] t = "Div" -> "/" [] t = "Exp" -> "^"

\* the recursive tree walk of section 4.3
RECURSIVE TreeWalk(_)
TreeWalk(node) ==
    IF node.terminal.t = "Literal" THEN Some(node.terminal.n)
    ELSE IF node.terminal.t = "Paren" THEN TreeWalk(node.left_child[1])
    ELSE RefBin(OpOf(node.terminal.t), TreeWalk(node.left_child[1]),
                TreeWalk(node.right_child[1]))

\* C5: on every tree parse returns, evaluate gives what the recursive tree
\* walk gives: a Leaf its literal, a binary Branch op(left value, right value).
C5_EvaluateIsTreeWalk ==
    (Done /\ res.kind = "Ok" /\ TreeWalk(res.node) # None)
    => Returned(TreeWalk(res.node)[1])

\* the line applies '/' to a divisor of value 0:  a/0,  a op b/0,  (a op b)/0
DividesByZero(s) ==
    \/ IsBin(s) /\ s[2] = "/" /\ s[3] = "0"
    \/ IsChain(s) /\ s[4] = "/" /\ s[5] = "0"
    \/ IsParenChain(s) /\ s[6] = "/" /\ s[7] = "0"

\* C6: an expression that divides by zero makes evaluate(parse(lex(s)))
\* return the division-by-zero error, and no stage aborts; "5/0".
C6_DivisionByZeroIsErr ==
    (Done /\ DividesByZero(input))
    => /\ pc = "report"
       /\ res.kind = "Ok"
       /\ value = EvalErr("vm: Divison by 0")

\* the line is  ( a % 0 )
ModuloByZero(s) ==
    /\ Len(s) = 5 /\ s[1] = "(" /\ s[5] = ")"
    /\ IsBin(<<s[2], s[3], s[4]>>) /\ s[3] = "%" /\ s[4] = "0"

\* C7: when evaluate applies '%' to a right operand of value 0 it returns Err,
\* as for '/', and does not execute the remainder.
C7_ModuloByZeroIsErr ==
    (Done /\ res.kind = "Ok" /\ ModuloByZero(input))
    => (pc = "report" /\ value.kind = "Err")

\* the number of tokens a tree was built from
RECURSIVE TokenCount(_)
TokenCount(node) ==
    IF node.terminal.t = "Literal" THEN 1
    ELSE IF node.terminal.t = "Paren" THEN 2 + TokenCount(node.left_child[1])
    ELSE 1 + TokenCount(node.left_child[1]) + TokenCount(node.right_child[1])

EndOfInputError(found, token_no) ==
    ParserError("Expected end of input, found", Some(found), token_no)

\* C8: parse returns Ok only when every token went into the tree, and the
\* inputs "2 2", "2+2)" and "2(1)" give "Expected end of input, found <token>"
\* at the index of the left-over token.
C8_EndOfInputCheck ==
    /\ (Done /\ res.kind = "Ok") => TokenCount(res.node) = Len(tokens.tokens)
    /\ (Done /\ input = <<"2", " ", "2">>) => res = EndOfInputError(Number(2), 1)
    /\ (Done /\ input = <<"2", "+", "2", ")">>)
       => res = EndOfInputError(Token("RightParen"), 3)
    /\ (Done /\ input = <<"2", "(", "1", ")">>)
       => res = EndOfInputError(Token("LeftParen"), 1)

\* every ')' closes an earlier '(' and every '(' is closed
RECURSIVE BalancedFrom(_, _, _)
BalancedFrom(toks, i, open) ==
    IF i > Len(toks) THEN open = 0
    ELSE IF toks[i].kind = "LeftParen" THEN BalancedFrom(toks, i + 1, open + 1)
    ELSE IF toks[i].kind = "RightParen"
    THEN open > 0 /\ BalancedFrom(toks, i + 1, open - 1)
    ELSE BalancedFrom(toks, i + 1, open)

Balanced(toks) == BalancedFrom(toks, 1, 0)

\* C9: parse never returns Ok for a token sequence with unbalanced
\* parentheses; "(2+3", "((1)".
C9_BalancedParentheses ==
    (Done /\ res.kind = "Ok") => Balanced(tokens.tokens)

BinaryOps == {Token(k) : k \in {"OpAdd", "OpSub", "OpMod", "OpMult", "OpDiv", "OpExp"}}

\* no tokens at all, or one number with a binary operator before or after it
MissingOperand(toks) ==
    \/ toks = <<>>
    \/ Len(toks) = 2 /\ toks[1] \in BinaryOps /\ toks[2].kind = "Number"
    \/ Len(toks) = 2 /\ toks[1].kind = "Number" /\ toks[2] \in BinaryOps

\* C10: where an operand is missing (no token, "+2", "2+") parse returns the
\* ParserError "Unexpected end of input" with token_no a position of the
\* token sequence (an index, or its length for the end).
C10_MissingOperand ==
    (Done /\ tokens.kind = "Ok" /\ MissingOperand(tokens.tokens))
    => /\ res.kind = "Err"
       /\ res.msg = "Unexpected end of input"
       /\ res.token_no \in 0..Len(tokens.tokens)

\* C11: the parser is never fatal: for every token sequence lex produces
\* (the empty one, a single Number, one whose token 0 is a Number or a ')'
\* included) parse returns Ok or Err, and no position it computes
\* (tokens.len() - 1, pos - 1) has gone below zero.
C11_ParserNeverFatal ==
    (Done /\ tokens.kind = "Ok")
    => /\ res.kind \in {"Ok", "Err"}
       /\ res.kind = "Err" => res.token_no >= 0

(***************************************************************************)
(* The lexical structure of a line, read off the characters by position    *)
(***************************************************************************)
\* the characters lex accepts
Known == Digits \cup FixedChars \cup {" "}

\* the positions (1-based) where a maximal run of digits starts
RunStarts(s) ==
    {i \in 1..Len(s) : s[i] \in Digits /\ (i = 1 \/ s[i - 1] \notin Digits)}

\* the last position of the digit run that starts at i
RunEnd(s, i) ==
    CHOOSE j \in i..Len(s) :
        /\ \A k \in i..j : s[k] \in Digits
        /\ j = Len(s) \/ s[j + 1] \notin Digits

\* the decimal value of the digits s[i..j]
RECURSIVE Decimal(_, _, _)
Decimal(s, i, j) ==
    IF j < i THEN 0 ELSE 10 * Decimal(s, i, j - 1) + ParseDigit(s[j])[1]

\* the positions where a token starts: digit runs and the fixed characters
TokenStarts(s) == RunStarts(s) \cup {i \in 1..Len(s) : s[i] \in FixedChars}

Spaces(s) == {i \in 1..Len(s) : s[i] = " "}

\* the k-th token start, counted from the left
NthStart(s, k) ==
    CHOOSE i \in TokenStarts(s) : Cardinality({j \in TokenStarts(s) : j <= i}) = k

\* the tokens of a line of known characters: one per token start, in order
RefTokens(s) ==
    [k \in 1..Cardinality(TokenStarts(s)) |->
        IF s[NthStart(s, k)] \in Digits
        THEN Number(Decimal(s, NthStart(s, k), RunEnd(s, NthStart(s, k))))
        ELSE FixedToken(s[NthStart(s, k)])]

\* the position of the first character lex does not accept
FirstUnknown(s) ==
    CHOOSE i \in 1..Len(s) : s[i] \notin Known /\ \A j \in 1..(i - 1) : s[j] \in Known

Before(s) == SubSeq(s, 1, FirstUnknown(s) - 1)

\* lex has run on the current line
Lexed == pc \in {"parse", "evaluate", "report", "aborted"}

\* C12: on the first character that is not a digit, a space or one of
\* + - % * / ^ ( ) lex returns the LexerError whose token_no is the number of
\* scan steps up to and including that character (one per token or skipped
\* space, a digit run being one step) and whose tokens are the tokens of the
\* part before it; the characters after it do not matter; "2+@" gives
\* token_no 3 and [Number(2), OpAdd].
C12_LexicalError ==
    (Lexed /\ \E i \in 1..Len(input) : input[i] \notin Known)
    => /\ tokens.kind = "Err"
       /\ tokens.token_no
            = Cardinality(TokenStarts(Before(input))) + Cardinality(Spaces(Before(input))) + 1
       /\ tokens.tokens = RefTokens(Before(input))
       /\ tokens.char = input[FirstUnknown(input)]
       /\ tokens = lex(Append(Before(input), input[FirstUnknown(input)]))

C12_Witness ==
    /\ pc = "parse"
    /\ input = <<"2", "+", "@">>
    /\ tokens.kind = "Err"
    /\ tokens.token_no = 3
    /\ tokens.tokens = <<Number(2), Token("OpAdd")>>

\* C13: a LexerError e goes through parse unchanged: the ParserError has
\* msg = e.msg, token_no = e.token_no and lexer = e.tokens, and no parsing
\* step runs (so none can abort); a ParserError the parser itself makes has
\* an empty lexer list.
C13_LexerErrorPassThrough ==
    /\ (Done /\ tokens.kind = "Err")
       => /\ pc = "report"
          /\ res.kind = "Err"
          /\ res.msg = tokens.msg /\ res.found = Some(tokens.char)
          /\ res.token_no = tokens.token_no
          /\ res.lexer = tokens.tokens
    /\ (Done /\ tokens.kind = "Ok" /\ res.kind = "Err") => res.lexer = <<>>

C13_Witness ==
    /\ pc = "report"
    /\ tokens.kind = "Err"
    /\ res.kind = "Err"
    /\ res.token_no = 3
    /\ res.lexer = <<Number(2), Token("OpAdd")>>

\* the line with a space put in after its first p characters
InsertSpace(s, p) == SubSeq(s, 1, p) \o <<" ">> \o SubSeq(s, p + 1, Len(s))

\* the line without its i-th character
DeleteAt(s, i) == SubSeq(s, 1, i - 1) \o SubSeq(s, i + 1, Len(s))

\* the gap after the first p characters has a digit on both sides
GapBetweenDigits(s, p) ==
    p >= 1 /\ p < Len(s) /\ s[p] \in Digits /\ s[p + 1] \in Digits

SameTokens(a, b) == a.kind = b.kind /\ a.tokens = b.tokens

\* C14: a space makes no token, and putting a space in, or taking one out,
\* anywhere but between two digits leaves the token sequence lex returns
\* unchanged; lex("1 + 2") and lex("1+2") give the same tokens.
C14_WhitespaceInsensitive ==
    Lexed
    => /\ Len(tokens.tokens) <= Len(input) - Cardinality(Spaces(input))
       /\ \A p \in 0..Len(input) :
             ~GapBetweenDigits(input, p)
             => SameTokens(lex(InsertSpace(input, p)), tokens)
       /\ \A i \in Spaces(input) :
             ~GapBetweenDigits(DeleteAt(input, i), i - 1)
             => SameTokens(lex(DeleteAt(input, i)), tokens)

C14_Witness ==
    /\ pc = "parse"
    /\ input = <<"1", " ", "+", " ", "2">>
    /\ tokens = [kind |-> "Ok", tokens |-> <<Number(1), Token("OpAdd"), Number(2)>>]
    /\ lex(<<"1", "+", "2">>) = tokens

\* C15: every maximal run of digits makes exactly one Number token, with the
\* decimal value of the whole run, and each of + - % * / ^ ( ) makes exactly
\* one token, so there are as many tokens as digit runs and operator or
\* parenthesis characters together.
C15_GreedyNumbers ==
    (Lexed /\ \A i \in 1..Len(input) : input[i] \in Known)
    => /\ tokens.kind = "Ok"
       /\ tokens.tokens = RefTokens(input)
       /\ Len(tokens.tokens)
            = Cardinality(RunStarts(input))
              + Cardinality({i \in 1..Len(input) : input[i] \in FixedChars})

C15_Witness ==
    /\ pc = "parse"
    /\ input = <<"2", "3", "+">>
    /\ tokens = [kind |-> "Ok", tokens |-> <<Number(23), Token("OpAdd")>>]

BinaryTerminals == {"Sum", "Sub", "Mod", "Mult", "Div", "Exp"}

\* every node of the tree has the children its terminal asks for
RECURSIVE ArityOk(_)
ArityOk(node) ==
    CASE node.terminal.t = "Literal" ->
           node.left_child = None /\ node.right_child = None
      [] node.terminal.t = "Paren" ->
           /\ node.left_child # None /\ node.right_child = None
           /\ ArityOk(node.left_child[1])
      [] node.terminal.t \in BinaryTerminals ->
           /\ node.left_child # None /\ node.right_child # None
           /\ ArityOk(node.left_child[1])
           /\ ArityOk(node.right_child[1])
      [] OTHER -> FALSE

\* C16: in every tree parse returns a Literal node has no child, a Paren
\* node has a left child and no right child, and a Sum, Sub, Mod, Mult, Div
\* or Exp node has both children.
C16_Arity ==
    (Done /\ res.kind = "Ok") => ArityOk(res.node)

\* "(2+3)*4": a Mult node over a Literal and a Paren node over a Sum node
C16_Witness ==
    /\ pc = "evaluate"
    /\ input = <<"(", "2", "+", "3", ")", "*", "4">>
    /\ res.kind = "Ok"
    /\ res.node.terminal.t = "Mult"
    /\ res.node.left_child[1].terminal.t = "Literal"
    /\ res.node.right_child[1].terminal.t = "Paren"
    /\ res.node.right_child[1].left_child[1].terminal.t = "Sum"

\* a leaf has depth 0 and a branch a depth above that of each of its children
RECURSIVE DepthOk(_)
DepthOk(node) ==
    IF node.terminal.t = "Literal" THEN node.depth = 0
    ELSE /\ \A child \in {node.left_child, node.right_child} :
               child # None
               => node.depth > child[1].depth /\ DepthOk(child[1])

\* C17: in every tree parse returns the depth of a branch node is strictly
\* greater than the depth of its left child and of its right child, and a
\* Literal leaf has depth 0.
C17_DepthInvariant ==
    (Done /\ res.kind = "Ok") => DepthOk(res.node)

\* the terminal a token stands for
TerminalOf(tok) ==
    CASE tok.kind = "Number" -> Literal(tok.n)
      [] tok.kind = "OpAdd" -> Terminal("Sum")
      [] tok.kind = "OpSub" -> Terminal("Sub")
      [] tok.kind = "OpMod" -> Terminal("Mod")
      [] tok.kind = "OpMult" -> Terminal("Mult")
      [] tok.kind = "OpDiv" -> Terminal("Div")
      [] tok.kind = "OpExp" -> Terminal("Exp")

\* the terminals of the numbers and operators of a token sequence, in order
RECURSIVE Operands(_)
Operands(toks) ==
    IF toks = <<>> THEN <<>>
    ELSE IF Head(toks).kind \in {"LeftParen", "RightParen"} THEN Operands(Tail(toks))
    ELSE <<TerminalOf(Head(toks))>> \o Operands(Tail(toks))

\* the terminals of a tree read left subtree, node, right subtree
RECURSIVE InOrder(_)
InOrder(node) ==
    IF node.terminal.t = "Literal" THEN <<node.terminal>>
    ELSE IF node.terminal.t = "Paren" THEN InOrder(node.left_child[1])
    ELSE InOrder(node.left_child[1]) \o <<node.terminal>>
         \o InOrder(node.right_child[1])

\* C18: a binary node built from "L op R" has the subtree of L as its left
\* child and the subtree of R as its right child: read left subtree, node,
\* right subtree, a tree made of all the tokens gives the numbers and
\* operators in the order of the text.
C18_ChildOrientation ==
    (Done /\ res.kind = "Ok" /\ TokenCount(res.node) = Len(tokens.tokens))
    => InOrder(res.node) = Operands(tokens.tokens)

\* C19: when a '+', '-', '*' or '^' of evaluate leaves the signed 64-bit
\* range, evaluate returns an Err or the value wrapped modulo 2^64 and does
\* not abort; "(2^64" is evaluated as 2 to the power 64, which wraps to 0.
C19_OverflowPolicy ==
    /\ (Done /\ res.kind = "Ok")
       => value # Panic("vm.rs:86 attempt to multiply with overflow")
    /\ (Done /\ res.kind = "Ok" /\ input = <<"(", "2", "^", "6", "4">>)
       => (pc = "report" /\ (value.kind = "Err" \/ value = EvalOk(0)))

\* C20: for every tree parse returns the execution stack is not empty and
\* has a Literal on top, and a Literal the loop pops has an element under
\* it (the only Literal at the bottom is a root leaf, which the pop before
\* the loop takes), so neither stack.pop().unwrap() meets an empty stack.
C20_StackPopSafety ==
    /\ res.kind = "Ok"
       => /\ build_exec_stack(res.node) # <<>>
          /\ build_exec_stack(res.node)[Len(build_exec_stack(res.node))].t = "Literal"
          /\ build_exec_stack(res.node)[1].t = "Literal"
             => Len(build_exec_stack(res.node)) = 1
    /\ (Done /\ res.kind = "Ok")
       => /\ value # Panic("vm.rs:52 unwrap on None")
          /\ value # Panic("vm.rs:65 unwrap on None")

\* "(2+3": the loop pops Literal(3) with Sum under it
C20_Witness ==
    /\ pc = "report"
    /\ res.kind = "Ok"
    /\ build_exec_stack(res.node) = <<Terminal("Sum"), Literal(3), Literal(2)>>
    /\ value = EvalOk(5)

\* the terminals a node of terminal t must not have as a direct child
Forbidden(t) ==
    CASE t \in {"Mult", "Div"} -> {"Sum", "Sub", "Mod"}
      [] t = "Exp" -> {"Sum", "Sub", "Mod", "Mult", "Div"}
      [] OTHER -> {}

RECURSIVE ShapeOk(_)
ShapeOk(node) ==
    \A child \in {node.left_child, node.right_child} :
        child # None
        => child[1].terminal.t \notin Forbidden(node.terminal.t) /\ ShapeOk(child[1])

\* C21: in every tree parse returns a Mult or Div node has no Sum, Sub or
\* Mod node as a direct child and an Exp node no Sum, Sub, Mod, Mult or Div
\* node: an operator of lower precedence is below one of higher precedence
\* only inside a Paren node.
C21_PrecedenceShape ==
    (Done /\ res.kind = "Ok") => ShapeOk(res.node)

\* "(2+3)*4": the Sum node is under the Mult node, inside a Paren node
C21_Witness ==
    /\ Done
    /\ input = <<"(", "2", "+", "3", ")", "*", "4">>
    /\ res.kind = "Ok"
    /\ res.node.terminal.t = "Mult"
    /\ \E child \in {res.node.left_child, res.node.right_child} :
          /\ child # None
          /\ child[1].terminal.t = "Paren"
          /\ child[1].left_child[1].terminal.t = "Sum"

\* f is what the next lower level returned for a start at position p: where
\* the token at f.pos is an operator of ops the level calls itself at
\* f.pos - 1, which has to be a position below p (the scan runs toward 0)
RhsCallAdvances(toks, p, f, ops) ==
    (f.kind = "Ok" /\ Get(toks, f.pos) # None /\ Get(toks, f.pos)[1].kind \in ops)
    => (f.pos - 1 >= 0 /\ f.pos - 1 < p)

\* the recursive calls of the four levels started at the last token
TopCallsAdvance(toks, p) ==
    /\ RhsCallAdvances(toks, p, parse_term(toks, p), {"OpAdd", "OpSub", "OpMod"})
    /\ RhsCallAdvances(toks, p, parse_factor(toks, p), {"OpMult", "OpDiv"})
    /\ RhsCallAdvances(toks, p, parse_exponent(toks, p), {"OpExp"})
    /\ Get(toks, p) = Some(Token("RightParen")) => (p - 1 >= 0)

\* C22: parse runs to completion on every token sequence, and a recursive
\* call of parse_expr, parse_term, parse_factor is made at a position
\* strictly beyond the one its caller started at, in the direction of the
\* scan, so the position never comes back to a token already consumed.
C22_ParsingCompletes ==
    /\ (Done /\ tokens.kind = "Ok") => res.kind \in {"Ok", "Err"}
    /\ (Done /\ tokens.kind = "Ok" /\ tokens.tokens # <<>>)
       => TopCallsAdvance(tokens.tokens, Len(tokens.tokens) - 1)

\* C23: the loop of run ends only on a line that, trimmed, is "quit" or "q";
\* every other line, the empty line and one with a lexer, parser or
\* evaluation error included, is reported and followed by a new prompt
\* (so the process never ends on it), and at a new prompt nothing of the
\* line before is left.
C23_ExitCondition ==
    /\ pc = "exited" => input \in {<<"q", "u", "i", "t">>, <<"q">>}
    /\ pc # "aborted"
    /\ pc = "prompt" => (input = <<>> /\ tokens = Nil /\ res = Nil /\ value = Nil)

====
